---- MODULE Spec2Model ----
(***************************************************************************)
(* The reader's conversation store (ChatProvider), the chat panel and the  *)
(* selection popup that feed it, and the resizable reader layout.          *)
(***************************************************************************)
EXTENDS Integers, Sequences, FiniteSets, TLC

VARIABLES
    conversation,     \* ChatProvider: <<>> for null, <<c>> for a ConversationContext c
    isExpanded,       \* ChatProvider: the panel is visible
    sending,          \* ChatPanel: a follow-up request is in flight
    showSimplifier,   \* reader: the selection popup is mounted
    selectedText,     \* reader: the selected text, as its words
    simplified,       \* Simplifier: the result text, "" while there is none
    loading,          \* Simplifier
    messages,         \* Simplifier: the popup's own turns
    sendingFollowUp,  \* Simplifier
    pc,               \* Simplifier.simplifyText: "idle", "dict" or "ai" (awaiting)
    closePending,     \* Simplifier.handleExpandToChat: a setTimeout(onClose, 150) is pending
    chatWidth,        \* ReaderLayout: panel width in percent
    chatWidthRef,     \* ReaderLayout
    isDragging,       \* ReaderLayout
    saved,            \* localStorage['reader-chat-width']: <<>> or <<string>>
    now,              \* Date.now()
    nextId,           \* the next value crypto.randomUUID() hands out
    readerMounted,    \* reader: the reader component is mounted
    selection,        \* the document's selection, as its words; <<>> for none
    timers,           \* the timeouts of handleSelection that are armed
    selectionTimerRef,\* reader: selectionTimerRef.current, <<>> or <<id>>
    nextTimer,        \* the next id setTimeout hands out
    inFlight,         \* chat panel: the sendMessage calls awaiting their fetch
    stored,           \* localStorage['reader-recent-books']: <<>> or <<JSON text>>
    opened,           \* how many different books were opened so far
    latestAdded,      \* history: <<id>> of the book of the latest addRecentBook
    closedWith,       \* history: the conversation and the calls in flight when the
                      \* close button was pressed, <<>> once the panel is open again
    last              \* history: the handler that ran last, if it called the store

vars == << conversation, isExpanded, sending, showSimplifier, selectedText,
           simplified, loading, messages, sendingFollowUp, pc, closePending,
           chatWidth, chatWidthRef, isDragging, saved, now, nextId,
           readerMounted, selection, timers, selectionTimerRef, nextTimer, inFlight,
           stored, opened, latestAdded, closedWith, last >>

storeVars  == << conversation, isExpanded >>
panelVars  == << sending, inFlight >>
popupVars  == << showSimplifier, selectedText, simplified, loading, messages,
                 sendingFollowUp, pc >>
layoutVars == << chatWidth, chatWidthRef, isDragging, saved >>
readerVars == << readerMounted, selection, timers, selectionTimerRef, nextTimer >>
libraryVars == << stored, opened, latestAdded >>

-----------------------------------------------------------------------------
(* Bounds of the model *)

MaxClock == 1          \* Date.now() takes the values 0..MaxClock
MaxId == 3             \* crypto.randomUUID() is called at most MaxId times
MaxTimers == 3         \* handleSelection arms at most MaxTimers timeouts
MaxBooks == 13         \* at most MaxBooks different books are opened

-----------------------------------------------------------------------------
(* Values *)

Undefined == "<undefined>"     \* an optional string that was not supplied
Null == <<>>                   \* conversation === null
Some(c) == <<c>>

Roles == {"user", "assistant"}
Scopes == {"highlight", "chapter", "book"}

Truthy(s) == s # Undefined /\ s # ""

Message(id, role, content, timestamp) ==
    [id |-> id, role |-> role, content |-> content, timestamp |-> timestamp]

-----------------------------------------------------------------------------
(* ChatProvider: the conversation store (src/contexts/ChatContext.tsx) *)

HasConversation == conversation # Null
Conv == conversation[1]

\* existingMessages && existingMessages.length > 0
HasExisting(options) ==
    options.existingMessages # Null /\ Len(options.existingMessages[1]) > 0

\* startConversation as it would be if it merged with the previous conversation
startConversationMerging(options, uuid, t) ==
    Some([originalText |-> options.originalText,
          chapterText  |-> options.chapterText,
          bookText     |-> options.bookText,
          chapterTitle |-> options.chapterTitle,
          messages     |-> (IF conversation = Null THEN <<>> ELSE conversation[1].messages)
                           \o (IF HasExisting(options)
                               THEN options.existingMessages[1]
                               ELSE << Message(uuid, "assistant",
                                               options.initialResponse, t) >>),
          scope        |-> "highlight"])

\* startConversation as it would be if it always seeded from initialResponse
startConversationIgnoringExisting(options, uuid, t) ==
    Some([originalText |-> options.originalText,
          chapterText  |-> options.chapterText,
          bookText     |-> options.bookText,
          chapterTitle |-> options.chapterTitle,
          messages     |-> << Message(uuid, "assistant", options.initialResponse, t) >>,
          scope        |-> "highlight"])

\* startConversation as it would be if it carried the previous scope over
startConversationKeepingScope(options, uuid, t) ==
    Some([originalText |-> options.originalText,
          chapterText  |-> options.chapterText,
          bookText     |-> options.bookText,
          chapterTitle |-> options.chapterTitle,
          messages     |-> IF HasExisting(options)
                           THEN options.existingMessages[1]
                           ELSE << Message(uuid, "assistant",
                                           options.initialResponse, t) >>,
          scope        |-> IF conversation = Null THEN "highlight"
                           ELSE conversation[1].scope])

\* startConversation(options): the conversation it stores. uuid and t are the
\* values crypto.randomUUID() and Date.now() return if they are called.
startConversation(options, uuid, t) ==
    IF HasExisting(options)
    THEN Some([originalText |-> options.originalText,
               chapterText  |-> options.chapterText,
               bookText     |-> options.bookText,
               chapterTitle |-> options.chapterTitle,
               messages     |-> options.existingMessages[1],
               scope        |-> "highlight"])
    ELSE Some([originalText |-> options.originalText,
               chapterText  |-> options.chapterText,
               bookText     |-> options.bookText,
               chapterTitle |-> options.chapterTitle,
               messages     |-> << Message(uuid, "assistant",
                                           options.initialResponse, t) >>,
               scope        |-> "highlight"])

\* setScope as it would be without its guard on the previous conversation
setScopeUnguarded(prev, scope) ==
    IF prev = Null
    THEN Some([originalText |-> <<>>, chapterText |-> Undefined,
               bookText |-> Undefined, chapterTitle |-> Undefined,
               messages |-> <<>>, scope |-> scope])
    ELSE Some([prev[1] EXCEPT !.scope = scope])

\* setScope as it would be if it built the conversation anew around the turns
setScopeDroppingContext(prev, scope) ==
    IF prev = Null THEN Null
    ELSE Some([originalText |-> prev[1].originalText, chapterText |-> Undefined,
               bookText |-> Undefined, chapterTitle |-> Undefined,
               messages |-> prev[1].messages, scope |-> scope])

\* setScope(scope): the updater applied to the previous conversation
setScope(prev, scope) ==
    IF prev = Null THEN Null
    ELSE Some([prev[1] EXCEPT !.scope = scope])

\* addMessage as it would be without its guard on the previous conversation
addMessageUnguarded(prev, role, content, uuid, t) ==
    IF prev = Null
    THEN Some([originalText |-> <<>>, chapterText |-> Undefined,
               bookText |-> Undefined, chapterTitle |-> Undefined,
               messages |-> << Message(uuid, role, content, t) >>,
               scope |-> "highlight"])
    ELSE Some([prev[1] EXCEPT
                 !.messages = Append(@, Message(uuid, role, content, t))])

\* addMessage as it would be if it put the new message first
addMessagePrepending(prev, role, content, uuid, t) ==
    IF prev = Null THEN Null
    ELSE Some([prev[1] EXCEPT
                 !.messages = << Message(uuid, role, content, t) >> \o @])

\* addMessage(message): the updater applied to the previous conversation
addMessage(prev, role, content, uuid, t) ==
    IF prev = Null THEN Null
    ELSE Some([prev[1] EXCEPT
                 !.messages = Append(@, Message(uuid, role, content, t))])

\* clearConversation as it would be if it left the panel alone
clearConversationOnly ==
    /\ conversation' = Null
    /\ UNCHANGED isExpanded

\* clearConversation()
clearConversation ==
    /\ conversation' = Null
    /\ isExpanded' = FALSE

\* history of the handler that ran last, when it called the store: its name,
\* its arguments and the store as it was before the handler ran
Call(op, args) ==
    [op |-> op, args |-> args,
     pre |-> [conversation |-> conversation, isExpanded |-> isExpanded,
              sending |-> sending, chatWidth |-> chatWidth,
              chatWidthRef |-> chatWidthRef, saved |-> saved]]

\* the handler that ran last did not call the store
NoCall == [op |-> "none", args |-> <<>>, pre |-> <<>>]

-----------------------------------------------------------------------------
(* Inputs *)

Texts == { <<"perspicacious">> }    \* the selection, as its words
Inputs == { "", "why?" }            \* the trimmed content of an input field
Modes == { "explain", "eli5" }

\* what the host document view supplies with a conversation
Contexts ==
    { [chapterText |-> Undefined, bookText |-> Undefined, chapterTitle |-> Undefined],
      [chapterText |-> "chapter text", bookText |-> Undefined, chapterTitle |-> "One"],
      [chapterText |-> "chapter text", bookText |-> "book text", chapterTitle |-> "One"],
      [chapterText |-> "", bookText |-> "book text", chapterTitle |-> Undefined] }

FailedToSimplify == "Failed to simplify text. Please try again."
UnableToSimplify == "Unable to simplify text"
FailedToRespond  == "Failed to get response. Please try again."
UnableToRespond  == "Unable to respond"
NoDefinitionFound == "No definition found"

\* a || b on optional strings
OrElse(a, b) == IF Truthy(a) THEN a ELSE b

\* answers of the generative model to the route: a non-success status, or a
\* success with or without a candidate text
ModelAnswers ==
    { [ok |-> FALSE, text |-> Undefined],
      [ok |-> TRUE,  text |-> Undefined],
      [ok |-> TRUE,  text |-> "generated answer"] }

NoCandidate == [ok |-> TRUE, text |-> Undefined]

\* the route as it would be if it passed a missing candidate text on
POSTWithoutPlaceholder(answer) ==
    IF ~answer.ok THEN [kind |-> "notok", simplified |-> Undefined]
    ELSE [kind |-> "ok", simplified |-> answer.text]

\* POST /api/simplify: its answer to the client for the model's answer
POST(answer) ==
    IF ~answer.ok THEN [kind |-> "notok", simplified |-> Undefined]
    ELSE [kind |-> "ok", simplified |-> OrElse(answer.text, UnableToSimplify)]

\* answers to a request as the client sees them: the fetch throws, an endpoint
\* answers without the field, or the route answers
BackendResponses ==
    { [kind |-> "throw", simplified |-> Undefined],
      [kind |-> "ok",    simplified |-> Undefined] }
    \cup { POST(answer) : answer \in ModelAnswers }

\* answers of the dictionary service: a failure, or the meaning groups found
DictionaryResponses ==
    { [ok |-> FALSE, meanings |-> <<>>],
      [ok |-> TRUE,  meanings |-> <<>>],
      [ok |-> TRUE,  meanings |-> << "adjective: having keen insight" >>] }

-----------------------------------------------------------------------------
(* POST /api/simplify (src/app/api/simplify/route.ts): what a follow-up sends
   to the model *)

\* A long text is kept as its runs of equal characters, no two neighbouring
\* runs of the same character and none empty.
Run(ch, n) == [ch |-> ch, n |-> n]

CHAPTER_CAP == 15000
BOOK_CAP == 30000

\* the characters of the chapter and book texts the document view supplies
Characters(str) ==
    CASE str = "chapter text"  -> << Run("c", 12) >>
      [] str = "book text"     -> << Run("b", 9) >>
      [] str = "long chapter"  -> << Run("c", 15000), Run("x", 1) >>
      [] str = "exact chapter" -> << Run("c", 14999), Run("x", 1) >>
      [] str = "mid book"      -> << Run("b", 20000), Run("z", 1) >>
      [] str = "long book"     -> << Run("b", 30000), Run("y", 5) >>
      [] OTHER                 -> << >>

\* String.prototype.length
RECURSIVE length(_)
length(runs) ==
    IF runs = << >> THEN 0 ELSE Head(runs).n + length(Tail(runs))

\* the characters from index begin (counted from 0) on
RECURSIVE drop(_, _)
drop(runs, begin) ==
    IF runs = << >> \/ begin <= 0 THEN runs
    ELSE IF Head(runs).n <= begin THEN drop(Tail(runs), begin - Head(runs).n)
    ELSE << Run(Head(runs).ch, Head(runs).n - begin) >> \o Tail(runs)

\* the first count characters
RECURSIVE take(_, _)
take(runs, count) ==
    IF runs = << >> \/ count <= 0 THEN << >>
    ELSE IF Head(runs).n <= count
         THEN << Head(runs) >> \o take(Tail(runs), count - Head(runs).n)
    ELSE << Run(Head(runs).ch, count) >>

\* slice as it would be if it did not cut
sliceWhole(runs, begin, end) == runs

\* String.prototype.slice(begin, end) for 0 <= begin <= end
slice(runs, begin, end) == take(drop(runs, begin), end - begin)

\* the context the route adds to the system message of a follow-up
contextInfo(scope, scopeContext, chapterTitle) ==
    IF scope = "chapter" /\ Truthy(scopeContext)
    THEN [kind |-> "chapter",
          chapterTitle |-> IF Truthy(chapterTitle) THEN chapterTitle ELSE Undefined,
          text |-> slice(Characters(scopeContext), 0, CHAPTER_CAP)]
    ELSE IF scope = "book" /\ Truthy(scopeContext)
    THEN [kind |-> "book", chapterTitle |-> Undefined,
          text |-> slice(Characters(scopeContext), 0, BOOK_CAP)]
    ELSE [kind |-> "none", chapterTitle |-> Undefined, text |-> << >>]

\* the contents the route sends to the model for a request body of mode
\* 'followup'
contents(body) ==
    IF Len(body.conversationHistory) > 0
    THEN [originalText |-> body.originalText,
          contextInfo  |-> contextInfo(body.scope, body.scopeContext, body.chapterTitle),
          history      |-> [i \in 1..Len(body.conversationHistory) |->
                              [role |-> IF body.conversationHistory[i].role = "assistant"
                                        THEN "model" ELSE "user",
                               text |-> body.conversationHistory[i].content]],
          question     |-> body.text,
          turns        |-> << [role |-> "user", text |-> "systemContext"],
                              [role |-> "model", text |-> "I understand."] >>
                           \o [i \in 1..Len(body.conversationHistory) |->
                                 [role |-> IF body.conversationHistory[i].role = "assistant"
                                           THEN "model" ELSE "user",
                                  text |-> body.conversationHistory[i].content]]
                           \o << [role |-> "user", text |-> body.text] >>]
    ELSE [originalText |-> body.originalText,
          contextInfo  |-> contextInfo(body.scope, body.scopeContext, body.chapterTitle),
          history      |-> << >>,
          question     |-> body.text,
          turns        |-> << [role |-> "user", text |-> "prompts.followup"] >>]

\* a request that was sent, and what the route made of it for the model
Sent(body) == [request |-> Some(body), contents |-> Some(contents(body))]
NotSent == [request |-> Null, contents |-> Null]

-----------------------------------------------------------------------------
(* Simplifier: the selection popup (src/components/Simplifier.tsx) *)

\* the popup unmounts: its state is discarded and late replies change nothing
Unmount ==
    /\ showSimplifier' = FALSE
    /\ selectedText' = <<>>
    /\ simplified' = ""
    /\ loading' = FALSE
    /\ messages' = <<>>
    /\ sendingFollowUp' = FALSE
    /\ pc' = "idle"

\* the selection timer of the reader fires: the popup mounts. The timer waits
\* 200 ms or more, so a close timer (150 ms) of an earlier popup has fired.
ShowSimplifier(text) ==
    /\ ~showSimplifier
    /\ ~closePending
    /\ showSimplifier' = TRUE
    /\ selectedText' = text
    /\ UNCHANGED << simplified, loading, messages, sendingFollowUp, pc >>
    /\ last' = NoCall
    /\ UNCHANGED << storeVars, panelVars, layoutVars, closePending, now, nextId >>
    /\ UNCHANGED readerVars
    /\ UNCHANGED closedWith
    /\ UNCHANGED libraryVars

\* onClose: click outside, Escape or the backdrop
ClosePopup ==
    /\ showSimplifier
    /\ Unmount
    /\ last' = NoCall
    /\ UNCHANGED << storeVars, panelVars, layoutVars, closePending, now, nextId >>
    /\ UNCHANGED readerVars
    /\ UNCHANGED closedWith
    /\ UNCHANGED libraryVars

\* the result view (messages, follow-up input, expand button) is rendered
ResultView == showSimplifier /\ simplified # "" /\ ~loading

\* which branch the popup renders
view ==
    IF ~showSimplifier THEN "none"
    ELSE IF simplified = "" /\ ~loading THEN "buttons"
    ELSE IF loading THEN "loading"
    ELSE "result"

\* the texts the result view shows: the contents of the popup's messages
shownContents ==
    IF view = "result" THEN { messages[i].content : i \in 1..Len(messages) }
    ELSE { }

\* simplifyText(mode) up to its first await
SimplifyText(mode) ==
    /\ showSimplifier /\ simplified = "" /\ ~loading
    /\ loading' = TRUE
    /\ pc' = IF mode = "explain" /\ Len(selectedText) = 1 THEN "dict" ELSE "ai"
    /\ last' = [op |-> "simplifyText", args |-> mode, pre |-> << >>]
    /\ UNCHANGED << showSimplifier, selectedText, simplified, messages, sendingFollowUp >>
    /\ UNCHANGED << storeVars, panelVars, layoutVars, closePending, now, nextId >>
    /\ UNCHANGED readerVars
    /\ UNCHANGED closedWith
    /\ UNCHANGED libraryVars

\* fetchDictionaryDefinition(word): null is Undefined
fetchDictionaryDefinition(response) ==
    IF ~response.ok THEN Undefined
    ELSE IF Len(response.meanings) = 0 THEN NoDefinitionFound
    ELSE response.meanings[1]

\* simplifyText resumes with the dictionary's answer
DictionaryReply(response) ==
    /\ showSimplifier /\ pc = "dict"
    /\ LET dictDefinition == fetchDictionaryDefinition(response) IN
       IF Truthy(dictDefinition)
       THEN /\ simplified' = dictDefinition
            /\ loading' = FALSE
            /\ pc' = "idle"
       ELSE /\ pc' = "ai"
            /\ UNCHANGED << simplified, loading >>
    /\ last' = [op |-> "dictionaryReply", args |-> response, pre |-> << >>]
    /\ UNCHANGED << showSimplifier, selectedText, messages, sendingFollowUp >>
    /\ UNCHANGED << storeVars, panelVars, layoutVars, closePending, now, nextId >>
    /\ UNCHANGED readerVars
    /\ UNCHANGED closedWith
    /\ UNCHANGED libraryVars

\* simplifyText resumes with the backend's answer
BackendReply(response) ==
    /\ showSimplifier /\ pc = "ai"
    /\ pc' = "idle"
    /\ CASE response.kind = "notok" ->
              /\ simplified' = FailedToSimplify
              /\ UNCHANGED << loading, messages, nextId >>
         [] response.kind = "throw" ->
              /\ simplified' = FailedToSimplify
              /\ loading' = FALSE
              /\ UNCHANGED << messages, nextId >>
         [] response.kind = "ok" ->
              /\ nextId < MaxId
              /\ LET responseText == OrElse(response.simplified, UnableToSimplify) IN
                 /\ simplified' = responseText
                 /\ messages' = << Message(nextId, "assistant", responseText, now) >>
              /\ nextId' = nextId + 1
              /\ loading' = FALSE
    /\ last' = [op |-> "backendReply", args |-> response, pre |-> << >>]
    /\ UNCHANGED << showSimplifier, selectedText, sendingFollowUp >>
    /\ UNCHANGED << storeVars, panelVars, layoutVars, closePending, now >>
    /\ UNCHANGED readerVars
    /\ UNCHANGED closedWith
    /\ UNCHANGED libraryVars

\* sendFollowUp: the body of its request, from the messages it rendered with
followUpBody(text, msgs, content) ==
    [text         |-> content,
     mode         |-> "followup",
     originalText |-> text,
     conversationHistory |-> [i \in 1..Len(msgs) |->
                                [role |-> msgs[i].role, content |-> msgs[i].content]],
     scope        |-> Undefined,
     scopeContext |-> Undefined,
     chapterTitle |-> Undefined]

\* sendFollowUp() up to its await
SendFollowUp(followUpInput) ==
    /\ ResultView
    /\ IF followUpInput = "" \/ sendingFollowUp
       THEN /\ last' = NoCall
            /\ UNCHANGED << messages, sendingFollowUp, nextId >>
       ELSE /\ nextId < MaxId
            /\ last' = [op |-> "sendFollowUp", args |-> followUpInput,
                        pre |-> [messages |-> messages]]
                       @@ Sent(followUpBody(selectedText, messages, followUpInput))
            /\ messages' = Append(messages, Message(nextId, "user", followUpInput, now))
            /\ nextId' = nextId + 1
            /\ sendingFollowUp' = TRUE
    /\ UNCHANGED << showSimplifier, selectedText, simplified, loading, pc >>
    /\ UNCHANGED << storeVars, panelVars, layoutVars, closePending, now >>
    /\ UNCHANGED readerVars
    /\ UNCHANGED closedWith
    /\ UNCHANGED libraryVars

\* sendFollowUp resumes with the backend's answer
FollowUpReply(response) ==
    /\ showSimplifier /\ sendingFollowUp
    /\ nextId < MaxId
    /\ LET content == IF response.kind = "ok"
                      THEN OrElse(response.simplified, UnableToRespond)
                      ELSE FailedToRespond IN
       messages' = Append(messages, Message(nextId, "assistant", content, now))
    /\ nextId' = nextId + 1
    /\ sendingFollowUp' = FALSE
    /\ last' = NoCall
    /\ UNCHANGED << showSimplifier, selectedText, simplified, loading, pc >>
    /\ UNCHANGED << storeVars, panelVars, layoutVars, closePending, now >>
    /\ UNCHANGED readerVars
    /\ UNCHANGED closedWith
    /\ UNCHANGED libraryVars

-----------------------------------------------------------------------------
(* Expand to chat: Simplifier.handleExpandToChat and the reader's handler *)

\* the reader's handleExpandToChat(originalText, messages); context is what the
\* document view passes as chapterText, bookText and chapterTitle
handleExpandToChat(originalText, msgs, context) ==
    /\ IF Len(msgs) > 0
       THEN conversation' =
              startConversation(
                [originalText     |-> originalText,
                 initialResponse  |-> msgs[1].content,
                 chapterText      |-> context.chapterText,
                 bookText         |-> context.bookText,
                 chapterTitle     |-> context.chapterTitle,
                 existingMessages |-> Some(msgs)],
                nextId, now)
       ELSE UNCHANGED conversation
    /\ isExpanded' = TRUE

\* the popup's expand button
ExpandToChat(context) ==
    /\ ResultView
    /\ last' = Call("expandToChat", [originalText |-> selectedText,
                                               messages |-> messages,
                                               context |-> context])
    /\ IF Len(messages) > 0
       THEN /\ handleExpandToChat(selectedText, messages, context)
            /\ closePending' = TRUE
            /\ closedWith' = Null
       ELSE UNCHANGED << storeVars, closePending, closedWith >>
    /\ UNCHANGED << popupVars, panelVars, layoutVars, now, nextId >>
    /\ UNCHANGED readerVars
    /\ UNCHANGED libraryVars

\* setTimeout(() => onClose(), 150) fires. Timers armed by further clicks on a
\* popup that is closing fire within the same 150 ms and find it unmounted.
CloseTimer ==
    /\ closePending
    /\ closePending' = FALSE
    /\ Unmount
    /\ last' = NoCall
    /\ UNCHANGED << storeVars, panelVars, layoutVars, now, nextId >>
    /\ UNCHANGED readerVars
    /\ UNCHANGED closedWith
    /\ UNCHANGED libraryVars

-----------------------------------------------------------------------------
(* ChatPanel (src/components/ChatPanel.tsx) *)

\* scopeContext as it would be if the chapter text went with every scope
scopeContextAnyScope(c) ==
    IF Truthy(c.chapterText) THEN c.chapterText
    ELSE IF c.scope = "book" /\ Truthy(c.bookText) THEN c.bookText
    ELSE Undefined

\* sendMessage: the scopeContext it picks for the conversation c
scopeContext(c) ==
    IF c.scope = "chapter" /\ Truthy(c.chapterText) THEN c.chapterText
    ELSE IF c.scope = "book" /\ Truthy(c.bookText) THEN c.bookText
    ELSE Undefined

\* the body as it would be if the history were read after the question was added
requestBodyAfterAppend(c, content) ==
    [text         |-> content,
     mode         |-> "followup",
     originalText |-> c.originalText,
     conversationHistory |-> [i \in 1..Len(c.messages) |->
                                [role |-> c.messages[i].role,
                                 content |-> c.messages[i].content]]
                             \o << [role |-> "user", content |-> content] >>,
     scope        |-> c.scope,
     scopeContext |-> scopeContext(c),
     chapterTitle |-> c.chapterTitle]

\* sendMessage: the body of its request, from the conversation c it rendered with
requestBody(c, content) ==
    [text         |-> content,
     mode         |-> "followup",
     originalText |-> c.originalText,
     conversationHistory |-> [i \in 1..Len(c.messages) |->
                                [role |-> c.messages[i].role,
                                 content |-> c.messages[i].content]],
     scope        |-> c.scope,
     scopeContext |-> scopeContext(c),
     chapterTitle |-> c.chapterTitle]

\* if (!isExpanded || !conversation) return null
PanelRendered == isExpanded /\ HasConversation

\* sendMessage's early return as it would be without the test of `sending`
returnsEarlyWhileSending(input, isSending, c) ==
    input = "" \/ c = Null

\* if (!input.trim() || sending || !conversation) return
returnsEarly(input, isSending, c) ==
    input = "" \/ isSending \/ c = Null

\* sendMessage() up to its await; the call in flight is named by the id its
\* user turn got
SendMessage(input) ==
    /\ PanelRendered
    /\ IF returnsEarly(input, sending, conversation)
       THEN /\ last' = Call("sendMessage", input) @@ NotSent
            /\ UNCHANGED << conversation, sending, inFlight, nextId >>
       ELSE /\ nextId < MaxId
            /\ last' = Call("sendMessage", input) @@ Sent(requestBody(Conv, input))
            /\ conversation' = addMessage(conversation, "user", input, nextId, now)
            /\ nextId' = nextId + 1
            /\ sending' = TRUE
            /\ inFlight' = inFlight \cup { [question |-> nextId] }
    /\ UNCHANGED << isExpanded, popupVars, layoutVars, closePending, now >>
    /\ UNCHANGED readerVars
    /\ UNCHANGED closedWith
    /\ UNCHANGED libraryVars

\* the reply's content as it would be if a non-success status showed the
\* message of the error thrown for it
replyContentErrorMessage(response) ==
    IF response.kind = "ok" THEN OrElse(response.simplified, UnableToRespond)
    ELSE IF response.kind = "notok" THEN "Failed to get response"
    ELSE FailedToRespond

\* sendMessage: the content of the assistant turn it adds for an answer
replyContent(response) ==
    IF response.kind = "ok" THEN OrElse(response.simplified, UnableToRespond)
    ELSE FailedToRespond

\* sendMessage resumes with the backend's answer; the panel component stays
\* mounted whatever the store holds by then
ChatReply(response) ==
    /\ nextId < MaxId
    /\ \E call \in inFlight :
          /\ inFlight' = inFlight \ { call }
          /\ last' = Call("chatReply", response) @@ [answered |-> call.question]
    /\ conversation' = addMessage(conversation, "assistant", replyContent(response),
                                  nextId, now)
    /\ nextId' = nextId + 1
    /\ sending' = FALSE
    /\ UNCHANGED << isExpanded, popupVars, layoutVars, closePending, now >>
    /\ UNCHANGED readerVars
    /\ UNCHANGED closedWith
    /\ UNCHANGED libraryVars

\* isDisabled as it would be if it checked the chapter option alone
isDisabledChapterOnly(c, option) ==
    option = "chapter" /\ ~Truthy(c.chapterText)

\* the scope selector: isDisabled of one option
isDisabled(c, option) ==
    \/ option = "chapter" /\ ~Truthy(c.chapterText)
    \/ option = "book" /\ ~Truthy(c.bookText)

\* onClick={() => !isDisabled && setScope(option.value)}
ScopeClick(option) ==
    /\ PanelRendered
    /\ last' = Call("scopeClick", option)
    /\ IF ~isDisabled(Conv, option)
       THEN conversation' = setScope(conversation, option)
       ELSE UNCHANGED conversation
    /\ UNCHANGED << isExpanded, panelVars, popupVars, layoutVars, closePending, now, nextId >>
    /\ UNCHANGED readerVars
    /\ UNCHANGED closedWith
    /\ UNCHANGED libraryVars

\* the close button as it would be if closing stored the collapsed width
ClosePanelCollapsingWidth ==
    /\ PanelRendered
    /\ isExpanded' = FALSE
    /\ closedWith' = Some([conversation |-> conversation, inFlight |-> inFlight])
    /\ chatWidth' = 0
    /\ last' = Call("closePanel", <<>>)
    /\ UNCHANGED << conversation, panelVars, popupVars, chatWidthRef, isDragging,
                    saved, closePending, now, nextId >>
    /\ UNCHANGED readerVars
    /\ UNCHANGED libraryVars

\* the close button as it would be if it called clearConversation
ClosePanelClearing ==
    /\ PanelRendered
    /\ clearConversation
    /\ closedWith' = Some([conversation |-> conversation, inFlight |-> inFlight])
    /\ last' = Call("closePanel", <<>>)
    /\ UNCHANGED << panelVars, popupVars, layoutVars, closePending, now, nextId >>
    /\ UNCHANGED readerVars
    /\ UNCHANGED libraryVars

\* the panel's close button: setIsExpanded(false)
ClosePanel ==
    /\ PanelRendered
    /\ isExpanded' = FALSE
    /\ closedWith' = Some([conversation |-> conversation, inFlight |-> inFlight])
    /\ last' = Call("closePanel", <<>>)
    /\ UNCHANGED << conversation, panelVars, popupVars, layoutVars, closePending, now, nextId >>
    /\ UNCHANGED readerVars
    /\ UNCHANGED libraryVars

\* the minimized chat tab as it would be if it were offered with no conversation
ReopenTabWithoutConversation ==
    /\ ~isExpanded
    /\ isExpanded' = TRUE
    /\ closedWith' = Null
    /\ last' = Call("reopenTab", <<>>) @@ [closedWith |-> closedWith]
    /\ UNCHANGED << conversation, panelVars, popupVars, layoutVars, closePending, now, nextId >>
    /\ UNCHANGED readerVars
    /\ UNCHANGED libraryVars

\* the minimized chat tab: setIsExpanded(true)
ReopenTab ==
    /\ ~isExpanded /\ HasConversation
    /\ isExpanded' = TRUE
    /\ closedWith' = Null
    /\ last' = Call("reopenTab", <<>>) @@ [closedWith |-> closedWith]
    /\ UNCHANGED << conversation, panelVars, popupVars, layoutVars, closePending, now, nextId >>
    /\ UNCHANGED readerVars
    /\ UNCHANGED libraryVars

\* clearConversation(), offered to every consumer of the context
ClearConversation ==
    /\ clearConversation
    /\ closedWith' = Null
    /\ last' = Call("clearConversation", <<>>)
    /\ UNCHANGED << panelVars, popupVars, layoutVars, closePending, now, nextId >>
    /\ UNCHANGED readerVars
    /\ UNCHANGED libraryVars

\* time passes
Tick ==
    /\ now < MaxClock
    /\ now' = now + 1
    /\ last' = NoCall
    /\ UNCHANGED << storeVars, panelVars, popupVars, layoutVars, closePending, nextId >>
    /\ UNCHANGED readerVars
    /\ UNCHANGED closedWith
    /\ UNCHANGED libraryVars

-----------------------------------------------------------------------------
(* ReaderLayout (src/unnamed/part_012) *)

MIN_CHAT_WIDTH == 25
MAX_CHAT_WIDTH == 45
DEFAULT_CHAT_WIDTH == 40

ContainerWidths == { 100, 200 }            \* getBoundingClientRect().width
PointerXs == { -10, 40, 70, 120, 260 }     \* e.clientX; the container's left is 0

Digits == << "0", "1", "2", "3", "4", "5", "6", "7", "8", "9" >>

\* Number.prototype.toString of a whole number >= 0, as its characters
RECURSIVE toString(_)
toString(n) ==
    IF n < 10 THEN << Digits[n + 1] >>
    ELSE toString(n \div 10) \o << Digits[(n % 10) + 1] >>

\* parseFloat of a string of digits
RECURSIVE parseFloat(_)
parseFloat(str) ==
    IF Len(str) = 0 THEN 0
    ELSE parseFloat(SubSeq(str, 1, Len(str) - 1)) * 10
         + (CHOOSE d \in 0..9 : Digits[d + 1] = str[Len(str)])

Min(a, b) == IF a < b THEN a ELSE b
Max(a, b) == IF a > b THEN a ELSE b

\* the clamp as it would be without its upper limit
clampedWidthNoMax(newChatWidth) == Max(MIN_CHAT_WIDTH, newChatWidth)

\* Math.min(MAX_CHAT_WIDTH, Math.max(MIN_CHAT_WIDTH, newChatWidth))
clampedWidth(newChatWidth) ==
    Min(MAX_CHAT_WIDTH, Max(MIN_CHAT_WIDTH, newChatWidth))

\* the useState initialiser of chatWidth
initialChatWidth(item) ==
    IF item # Null /\ Len(item[1]) > 0 THEN parseFloat(item[1])
    ELSE DEFAULT_CHAT_WIDTH

\* the divider renders only while the panel is expanded
DividerRendered == isExpanded

\* const panelWidth = isExpanded ? `${chatWidth}%` : '0', in percent
panelWidth == IF isExpanded THEN chatWidth ELSE 0

handlePointerDown ==
    /\ DividerRendered
    /\ isDragging' = TRUE
    /\ last' = NoCall
    /\ UNCHANGED << chatWidth, chatWidthRef, saved >>
    /\ UNCHANGED << storeVars, panelVars, popupVars, closePending, now, nextId >>
    /\ UNCHANGED readerVars
    /\ UNCHANGED closedWith
    /\ UNCHANGED libraryVars

handlePointerMove(clientX, containerWidth) ==
    /\ DividerRendered
    /\ last' = [op |-> "pointerMove", args |-> << clientX, containerWidth >>,
                pre |-> <<>>]
    /\ IF ~isDragging
       THEN UNCHANGED << chatWidth, chatWidthRef >>
       ELSE LET mouseX == clientX - 0
                newChatWidth == ((containerWidth - mouseX) * 100) \div containerWidth
            IN /\ chatWidth' = clampedWidth(newChatWidth)
               /\ chatWidthRef' = clampedWidth(newChatWidth)
    /\ UNCHANGED << isDragging, saved >>
    /\ UNCHANGED << storeVars, panelVars, popupVars, closePending, now, nextId >>
    /\ UNCHANGED readerVars
    /\ UNCHANGED closedWith
    /\ UNCHANGED libraryVars

\* the onResize prop: BookReaderWrapper renders <ReaderLayout> without it
onResize == Undefined

handlePointerUp ==
    /\ DividerRendered
    /\ isDragging' = FALSE
    /\ saved' = Some(toString(chatWidthRef))
    /\ last' = [op |-> "pointerUp",
                args |-> [onResizeCalled |-> onResize # Undefined],
                pre |-> [chatWidth |-> chatWidth, isDragging |-> isDragging,
                         saved |-> saved]]
    /\ UNCHANGED << chatWidth, chatWidthRef >>
    /\ UNCHANGED << storeVars, panelVars, popupVars, closePending, now, nextId >>
    /\ UNCHANGED readerVars
    /\ UNCHANGED closedWith
    /\ UNCHANGED libraryVars

\* a new session: every component mounts afresh, localStorage is kept
Reload ==
    /\ conversation' = Null
    /\ isExpanded' = FALSE
    /\ sending' = FALSE
    /\ inFlight' = { }
    /\ closedWith' = Null
    /\ Unmount
    /\ closePending' = FALSE
    /\ chatWidth' = initialChatWidth(saved)
    /\ chatWidthRef' = initialChatWidth(saved)
    /\ isDragging' = FALSE
    /\ last' = Call("reload", <<>>)
    /\ UNCHANGED << saved, now, nextId >>
    /\ UNCHANGED readerVars
    /\ UNCHANGED libraryVars

-----------------------------------------------------------------------------
(* The application *)

Init ==
    /\ conversation = Null
    /\ isExpanded = FALSE
    /\ sending = FALSE
    /\ inFlight = { }
    /\ closedWith = Null
    /\ stored = Null
    /\ opened = 0
    /\ latestAdded = Null
    /\ showSimplifier = FALSE
    /\ selectedText = <<>>
    /\ simplified = ""
    /\ loading = FALSE
    /\ messages = <<>>
    /\ sendingFollowUp = FALSE
    /\ pc = "idle"
    /\ closePending = FALSE
    /\ chatWidth = DEFAULT_CHAT_WIDTH
    /\ chatWidthRef = DEFAULT_CHAT_WIDTH
    /\ isDragging = FALSE
    /\ saved = Null
    /\ now = 0
    /\ nextId = 0
    /\ readerMounted = TRUE
    /\ selection = << >>
    /\ timers = { }
    /\ selectionTimerRef = Null
    /\ nextTimer = 0
    /\ last = NoCall

PopupNext ==
    \/ \E text \in Texts : ShowSimplifier(text)
    \/ ClosePopup
    \/ \E mode \in Modes : SimplifyText(mode)
    \/ \E response \in DictionaryResponses : DictionaryReply(response)
    \/ \E response \in BackendResponses : BackendReply(response)
    \/ \E input \in Inputs : SendFollowUp(input)
    \/ \E response \in BackendResponses : FollowUpReply(response)
    \/ \E context \in Contexts : ExpandToChat(context)
    \/ CloseTimer

PanelNext ==
    \/ \E input \in Inputs : SendMessage(input)
    \/ \E response \in BackendResponses : ChatReply(response)
    \/ \E option \in Scopes : ScopeClick(option)
    \/ ClosePanel
    \/ ReopenTab
    \/ ClearConversation

LayoutNext ==
    \/ handlePointerDown
    \/ \E clientX \in PointerXs, containerWidth \in ContainerWidths :
          handlePointerMove(clientX, containerWidth)
    \/ handlePointerUp
    \/ Reload

\* the conversation side of the application: popup, store and chat panel
Next == PopupNext \/ PanelNext

Spec == Init /\ [][Next]_vars

\* the layout side: the divider, sessions, and what opens and closes the panel
OpenCloseNext ==
    \/ \E text \in Texts : ShowSimplifier(text)
    \/ \E mode \in Modes : SimplifyText(mode)
    \/ \E response \in BackendResponses : BackendReply(response)
    \/ \E context \in Contexts : ExpandToChat(context)
    \/ CloseTimer
    \/ ClosePanel
    \/ ReopenTab
    \/ ClearConversation

LayoutSpec == Init /\ [][LayoutNext \/ OpenCloseNext]_vars

-----------------------------------------------------------------------------
(* The store's operations called directly, as any consumer of useChat() may *)

\* a list a caller may pass as existingMessages
ImportedTurns ==
    << Message(101, "assistant", "generated answer", 0),
       Message(102, "user", "why?", 0) >>

Options(context, existing) ==
    [originalText     |-> << "perspicacious" >>,
     initialResponse  |-> "having keen insight",
     chapterText      |-> context.chapterText,
     bookText         |-> context.bookText,
     chapterTitle     |-> context.chapterTitle,
     existingMessages |-> existing]

NoContext == [chapterText |-> Undefined, bookText |-> Undefined, chapterTitle |-> Undefined]
ChapterOnly == [chapterText |-> "chapter text", bookText |-> Undefined, chapterTitle |-> "One"]

\* the option records startConversation is called with
StartOptions ==
    { Options(NoContext, Null),
      Options(NoContext, Some(ImportedTurns)),
      [Options(ChapterOnly, Some(<<>>)) EXCEPT !.originalText = << "dense", "prose" >>],
      Options(ChapterOnly, Some(ImportedTurns)) }

StartConversation(options) ==
    /\ HasExisting(options) \/ nextId < MaxId
    /\ conversation' = startConversation(options, nextId, now)
    /\ nextId' = IF HasExisting(options) THEN nextId ELSE nextId + 1
    /\ last' = Call("startConversation", options)
    /\ UNCHANGED << isExpanded, panelVars, popupVars, layoutVars, closePending, now >>
    /\ UNCHANGED readerVars
    /\ UNCHANGED closedWith
    /\ UNCHANGED libraryVars

AddMessage(role, content) ==
    /\ nextId < MaxId
    /\ conversation' = addMessage(conversation, role, content, nextId, now)
    /\ nextId' = nextId + 1
    /\ last' = Call("addMessage", [role |-> role, content |-> content])
    /\ UNCHANGED << isExpanded, panelVars, popupVars, layoutVars, closePending, now >>
    /\ UNCHANGED readerVars
    /\ UNCHANGED closedWith
    /\ UNCHANGED libraryVars

SetScope(scope) ==
    /\ conversation' = setScope(conversation, scope)
    /\ last' = Call("setScope", scope)
    /\ UNCHANGED << isExpanded, panelVars, popupVars, layoutVars, closePending, now, nextId >>
    /\ UNCHANGED readerVars
    /\ UNCHANGED closedWith
    /\ UNCHANGED libraryVars

SetIsExpanded(expanded) ==
    /\ isExpanded' = expanded
    /\ closedWith' = Null
    /\ last' = Call("setIsExpanded", expanded)
    /\ UNCHANGED << conversation, panelVars, popupVars, layoutVars, closePending, now, nextId >>
    /\ UNCHANGED readerVars
    /\ UNCHANGED libraryVars

ApiNext ==
    \/ \E options \in StartOptions : StartConversation(options)
    \/ \E role \in Roles : AddMessage(role, "hi")
    \/ \E scope \in Scopes : SetScope(scope)
    \/ \E expanded \in BOOLEAN : SetIsExpanded(expanded)

\* follow-ups of the chat panel that run between the direct calls
FollowUpNext ==
    \/ \E input \in Inputs : SendMessage(input)
    \/ \E response \in { r \in BackendResponses : r.kind = "throw" } :
          ChatReply(response)
    \/ ClearConversation

\* the store under direct calls and the panel's follow-ups, with time passing
ApiSpec == Init /\ [][ApiNext \/ FollowUpNext \/ Tick]_vars

\* chapter and book texts below, at and above the caps of the route
ScopeContexts ==
    { NoContext,
      [chapterText |-> "chapter text", bookText |-> "book text", chapterTitle |-> "One"],
      [chapterText |-> "exact chapter", bookText |-> "mid book", chapterTitle |-> Undefined],
      [chapterText |-> "long chapter", bookText |-> "long book", chapterTitle |-> "Two"] }

\* follow-ups of the chat panel in each scope, on conversations with such texts
ScopeNext ==
    \/ \E context \in ScopeContexts : StartConversation(Options(context, Null))
    \/ \E expanded \in BOOLEAN : SetIsExpanded(expanded)
    \/ \E option \in Scopes : ScopeClick(option)
    \/ \E input \in Inputs : SendMessage(input)
    \/ \E response \in BackendResponses : ChatReply(response)

ScopeSpec == Init /\ [][ScopeNext]_vars

-----------------------------------------------------------------------------
(* POST /api/simplify as a whole: every way a request can end *)

\* what a response carries: its status and the fields of its JSON body
Response(status, text, error) ==
    [status |-> status, simplified |-> text, error |-> error,
     unhandled |-> FALSE]

\* the catch block as it would be if it threw the error on
onErrorRethrow ==
    [status |-> 0, simplified |-> Undefined, error |-> Undefined,
     unhandled |-> TRUE]

\* the catch block of the route
onError == Response(500, Undefined, "Failed to simplify text")

\* response.ok
IsOk(status) == status >= 200 /\ status <= 299

\* the requests a client may send: a body that does not parse, and bodies with
\* and without text, with a history that is a list or is not one
Requests ==
    { [parses |-> p, text |-> t, mode |-> m, historyIsList |-> h] :
        p \in BOOLEAN, t \in { Undefined, "", "why?" },
        m \in { "explain", "followup" }, h \in BOOLEAN }

\* what the route finds around it: its configuration, the token service and
\* the generative model
Environments ==
    { [configured |-> c, auth |-> a, upstream |-> u] :
        c \in BOOLEAN, a \in { "token", "notoken", "throws" },
        u \in { [kind |-> "throws",   status |-> 0,   text |-> Undefined],
                [kind |-> "answer",   status |-> 429, text |-> Undefined],
                [kind |-> "answer",   status |-> 500, text |-> Undefined],
                [kind |-> "nojson",   status |-> 200, text |-> Undefined],
                [kind |-> "answer",   status |-> 200, text |-> Undefined],
                [kind |-> "answer",   status |-> 200, text |-> "generated answer"] } }

\* POST(request), from the parse of the body to the response
route(req, env) ==
    IF ~req.parses THEN onError
    ELSE IF ~Truthy(req.text) THEN Response(400, Undefined, "Text is required")
    ELSE IF ~env.configured
         THEN Response(500, Undefined, "Google Cloud configuration missing")
    ELSE IF env.auth = "throws" THEN onError
    ELSE IF env.auth = "notoken"
         THEN Response(500, Undefined, "Failed to authenticate with Google Cloud")
    ELSE IF req.mode = "followup" /\ ~req.historyIsList THEN onError
    ELSE IF env.upstream.kind = "throws" THEN onError
    ELSE IF ~IsOk(env.upstream.status)
         THEN Response(env.upstream.status, Undefined, "Failed to call Vertex AI")
    ELSE IF env.upstream.kind = "nojson" THEN onError
    ELSE Response(200, POST([ok |-> TRUE, text |-> env.upstream.text]).simplified,
                  Undefined)

\* one request handled by the route
Post(req, env) ==
    /\ last' = [op |-> "POST", args |-> [req |-> req, env |-> env],
                pre |-> << >>, response |-> route(req, env)]
    /\ UNCHANGED << storeVars, panelVars, popupVars, layoutVars, closePending,
                    now, nextId >>
    /\ UNCHANGED readerVars
    /\ UNCHANGED closedWith
    /\ UNCHANGED libraryVars

RouteNext == \E req \in Requests, env \in Environments : Post(req, env)

RouteSpec == Init /\ [][RouteNext]_vars

-----------------------------------------------------------------------------
(* Selection capture of the reader (src/components/BookReader.tsx) *)

\* the selections a reader makes: one word, or several
SelectionTexts ==
    { << "perspicacious" >>, << "dense", "prose" >>, << "the", "edifice", "stood" >> }

\* handleSelection: 200 ms for a selection without a space, 1000 ms otherwise
waitTime(text) == IF Len(text) = 1 THEN 200 ELSE 1000

\* clearTimeout as it would be if it cancelled nothing
clearTimeoutNothing(armed, ref) == armed

\* if (selectionTimerRef.current) clearTimeout(selectionTimerRef.current)
clearTimeout(armed, ref) == { t \in armed : Some(t.id) # ref }

\* the 'selected' event of the rendition: the reader has selected text
handleSelection(text) ==
    /\ readerMounted
    /\ nextTimer < MaxTimers
    /\ selection' = text
    /\ timers' = clearTimeout(timers, selectionTimerRef)
                   \cup { [id |-> nextTimer, waitTime |-> waitTime(text)] }
    /\ selectionTimerRef' = Some(nextTimer)
    /\ nextTimer' = nextTimer + 1
    /\ last' = [op |-> "handleSelection", args |-> text, pre |-> << >>]
    /\ UNCHANGED readerMounted
    /\ UNCHANGED << storeVars, panelVars, popupVars, layoutVars, closePending,
                    now, nextId >>
    /\ UNCHANGED closedWith
    /\ UNCHANGED libraryVars

\* the selection goes away (a click in the text); no 'selected' event follows
Deselect ==
    /\ readerMounted
    /\ selection # << >>
    /\ selection' = << >>
    /\ last' = NoCall
    /\ UNCHANGED << readerMounted, timers, selectionTimerRef, nextTimer >>
    /\ UNCHANGED << storeVars, panelVars, popupVars, layoutVars, closePending,
                    now, nextId >>
    /\ UNCHANGED closedWith
    /\ UNCHANGED libraryVars

\* the callback of an armed timeout runs; a set state of an unmounted reader
\* changes nothing
SelectionTimer(t) ==
    /\ t \in timers
    /\ timers' = timers \ { t }
    /\ IF readerMounted /\ selection # << >>
       THEN /\ selectedText' = selection
            /\ showSimplifier' = TRUE
       ELSE UNCHANGED << selectedText, showSimplifier >>
    /\ last' = [op |-> "selectionTimer", args |-> t,
                pre |-> [selection |-> selection, selectedText |-> selectedText,
                         showSimplifier |-> showSimplifier,
                         readerMounted |-> readerMounted]]
    /\ UNCHANGED << simplified, loading, messages, sendingFollowUp, pc >>
    /\ UNCHANGED << readerMounted, selection, selectionTimerRef, nextTimer >>
    /\ UNCHANGED << storeVars, panelVars, layoutVars, closePending, now, nextId >>
    /\ UNCHANGED closedWith
    /\ UNCHANGED libraryVars

\* the cleanup of the reader's effect: the reader unmounts, its popup with it
UnmountReader ==
    /\ readerMounted
    /\ readerMounted' = FALSE
    /\ timers' = clearTimeout(timers, selectionTimerRef)
    /\ selection' = << >>
    /\ Unmount
    /\ last' = NoCall
    /\ UNCHANGED << selectionTimerRef, nextTimer >>
    /\ UNCHANGED << storeVars, panelVars, layoutVars, closePending, now, nextId >>
    /\ UNCHANGED closedWith
    /\ UNCHANGED libraryVars

SelectionNext ==
    \/ \E text \in SelectionTexts : handleSelection(text)
    \/ Deselect
    \/ \E t \in timers : SelectionTimer(t)
    \/ UnmountReader
    \/ ClosePopup
    \/ \E mode \in Modes : SimplifyText(mode)

SelectionSpec == Init /\ [][SelectionNext]_vars

(* The recent-books list (src/lib/libraryStorage.ts) *)

MAX_RECENT_BOOKS == 12

\* JSON.stringify of the list: a property that is undefined is left out
stringify(books) ==
    [i \in 1..Len(books) |->
       IF books[i].currentCfi = Undefined
       THEN [f \in DOMAIN books[i] \ { "currentCfi" } |-> books[i][f]]
       ELSE books[i]]

\* JSON.parse of the text: a property that was left out reads as undefined
parse(text) ==
    [i \in 1..Len(text) |->
       IF "currentCfi" \in DOMAIN text[i] THEN text[i]
       ELSE text[i] @@ [currentCfi |-> Undefined]]

\* getRecentBooks(), in the browser
getRecentBooks(item) == IF item = Null THEN << >> ELSE parse(item[1])

\* books.filter(b => b.id !== id)
without(books, id) ==
    LET keep(b) == b.id # id IN SelectSeq(books, keep)

\* addRecentBook as it would be without the limit
addRecentBookUntrimmed(item, book) ==
    Some(stringify(<< book >> \o without(getRecentBooks(item), book.id)))

\* addRecentBook(book): what it stores
addRecentBook(item, book) ==
    LET books    == getRecentBooks(item)
        filtered == << book >> \o without(books, book.id)
        trimmed  == SubSeq(filtered, 1, Min(Len(filtered), MAX_RECENT_BOOKS))
    IN  Some(stringify(trimmed))

\* books.findIndex(b => b.id === id), counted from 0
findIndex(books, id) ==
    IF \E i \in 1..Len(books) : books[i].id = id
    THEN (CHOOSE i \in 1..Len(books) :
            /\ books[i].id = id
            /\ \A j \in 1..(i - 1) : books[j].id # id) - 1
    ELSE -1

\* updateBookProgress(id, progress, cfi) at the time given: what is stored
\* after it
updateBookProgress(item, id, progress, cfi, time) ==
    LET books     == getRecentBooks(item)
        bookIndex == findIndex(books, id)
    IN  IF bookIndex # -1
        THEN Some(stringify(
               [books EXCEPT ![bookIndex + 1] =
                  [@ EXCEPT !.progress = progress,
                            !.lastOpened = time,
                            !.currentCfi = IF Truthy(cfi) THEN cfi ELSE @]]))
        ELSE item

\* the record the reader passes when it opens the book with this id
Book(id, time) ==
    [id |-> id, title |-> "Untitled", lastOpened |-> time, progress |-> 0,
     currentCfi |-> Undefined]

\* the book that is reopened and read on: the first ever opened
Followed == { 0 }
Progresses == { 50 }
Cfis == { Undefined, "", "epubcfi(/6/4)" }

\* the reader opens a book: one never opened before, or a followed one again
AddRecentBook(id) ==
    /\ id < MaxBooks
    /\ stored' = addRecentBook(stored, Book(id, now))
    /\ opened' = IF id = opened THEN opened + 1 ELSE opened
    /\ latestAdded' = Some(id)
    /\ last' = [op |-> "addRecentBook", args |-> Book(id, now),
                pre |-> [stored |-> stored]]
    /\ UNCHANGED << storeVars, panelVars, popupVars, layoutVars, closePending,
                    now, nextId, closedWith >>
    /\ UNCHANGED readerVars

\* the reader reports the position reached in a book
UpdateBookProgress(id, progress, cfi) ==
    /\ stored' = updateBookProgress(stored, id, progress, cfi, now)
    /\ last' = [op |-> "updateBookProgress",
                args |-> [id |-> id, progress |-> progress, cfi |-> cfi],
                pre |-> [stored |-> stored]]
    /\ UNCHANGED << opened, latestAdded >>
    /\ UNCHANGED << storeVars, panelVars, popupVars, layoutVars, closePending,
                    now, nextId, closedWith >>
    /\ UNCHANGED readerVars

LibraryNext ==
    \/ \E id \in { opened } \cup { f \in Followed : f < opened } : AddRecentBook(id)
    \/ \E id \in Followed, progress \in Progresses, cfi \in Cfis :
          UpdateBookProgress(id, progress, cfi)
    \/ Tick

LibrarySpec == Init /\ [][LibraryNext]_vars

-----------------------------------------------------------------------------
-----------------------------------------------------------------------------
(* Properties *)

Range(seq) == { seq[i] : i \in 1..Len(seq) }

PreConversation == last.pre.conversation
PreHad == PreConversation # Null
PreTurns == IF PreHad THEN PreConversation[1].messages ELSE <<>>

\* C1: after any startConversation call the store holds exactly the turns that
\* call supplied or created: as many turns as were imported (one if none were),
\* each of them an imported turn or the turn made by this call, and so no turn
\* of the conversation it replaced unless the caller imported it again.
C1_OnlyMostRecentStart ==
    last.op = "startConversation" =>
        /\ HasConversation
        /\ LET supplied == IF HasExisting(last.args)
                           THEN last.args.existingMessages[1] ELSE <<>>
           IN /\ Len(Conv.messages) = IF supplied = <<>> THEN 1 ELSE Len(supplied)
              /\ \A i \in 1..Len(Conv.messages) :
                    \/ Conv.messages[i] \in Range(supplied)
                    \/ /\ supplied = <<>>
                       /\ Conv.messages[i].id = nextId - 1
                       /\ Conv.messages[i] \notin Range(PreTurns)

\* a second startConversation replaced a conversation that had grown by appends
C1_Witness ==
    /\ last.op = "startConversation"
    /\ PreHad
    /\ Len(PreTurns) >= 2
    /\ HasConversation
    /\ Conv.messages # PreTurns

\* C2: startConversation with a non-empty list of imported turns stores exactly
\* that list, in order; with no list or an empty one it stores one turn, of
\* role assistant, whose content is initialResponse.
C2_SeededVerbatimOrFromFirstResponse ==
    last.op = "startConversation" =>
        /\ HasConversation
        /\ IF last.args.existingMessages # Null
              /\ last.args.existingMessages[1] # <<>>
           THEN Conv.messages = last.args.existingMessages[1]
           ELSE /\ Len(Conv.messages) = 1
                /\ Conv.messages[1].role = "assistant"
                /\ Conv.messages[1].content = last.args.initialResponse

\* a two-turn list was imported over an existing conversation
C2_Witness ==
    /\ last.op = "startConversation"
    /\ last.args.existingMessages = Some(ImportedTurns)
    /\ PreHad
    /\ HasConversation
    /\ Len(Conv.messages) = 2

\* C3: right after any startConversation call the scope is 'highlight'.
C3_StartResetsScope ==
    last.op = "startConversation" =>
        HasConversation /\ Conv.scope = "highlight"

\* a conversation in scope 'chapter' was replaced by one started with imported
\* turns and a chapter context
C3_Witness ==
    /\ last.op = "startConversation"
    /\ PreHad
    /\ PreConversation[1].scope = "chapter"
    /\ HasExisting(last.args)
    /\ Truthy(last.args.chapterText)
    /\ HasConversation

\* C4: addMessage with no active conversation, called directly or by the reply
\* to a follow-up, leaves the store as it was: no conversation, same visibility.
C4_AppendWithoutConversationIsNoOp ==
    (last.op \in { "addMessage", "chatReply" } /\ ~PreHad) =>
        /\ conversation = Null
        /\ isExpanded = last.pre.isExpanded

\* the reply to a follow-up arrived after the conversation was cleared
C4_Witness ==
    /\ last.op = "chatReply"
    /\ ~PreHad
    /\ last.pre.sending
    /\ conversation = Null

\* C5: every append puts exactly one new turn after the turns already there,
\* which keep their content and order, and timestamps never decrease along
\* the list.
C5_AppendsInCallOrder ==
    /\ (last.op \in { "addMessage", "chatReply" } /\ PreHad) =>
          /\ HasConversation
          /\ Len(Conv.messages) = Len(PreTurns) + 1
          /\ SubSeq(Conv.messages, 1, Len(PreTurns)) = PreTurns
          /\ Conv.messages[Len(Conv.messages)].role =
                (IF last.op = "chatReply" THEN "assistant" ELSE last.args.role)
          /\ last.op = "addMessage" =>
                Conv.messages[Len(Conv.messages)].content = last.args.content
    /\ (last.op = "sendMessage" /\ last.args # "" /\ ~last.pre.sending) =>
          /\ HasConversation
          /\ Len(Conv.messages) = Len(PreTurns) + 1
          /\ SubSeq(Conv.messages, 1, Len(PreTurns)) = PreTurns
          /\ Conv.messages[Len(Conv.messages)].role = "user"
          /\ Conv.messages[Len(Conv.messages)].content = last.args
    /\ HasConversation =>
          \A i \in 1..(Len(Conv.messages) - 1) :
              Conv.messages[i].timestamp <= Conv.messages[i + 1].timestamp

\* a third turn was appended, later than the first
C5_Witness ==
    /\ last.op = "addMessage"
    /\ PreHad
    /\ HasConversation
    /\ Len(Conv.messages) >= 3
    /\ Conv.messages[Len(Conv.messages)].timestamp > Conv.messages[1].timestamp

\* C6: whatever the state before, clearConversation leaves the panel hidden
\* and no conversation.
C6_ClearHidesAndDrops ==
    last.op = "clearConversation" =>
        conversation = Null /\ ~isExpanded

\* clear ran with the panel open, a conversation in scope 'chapter' and a
\* follow-up in flight
C6_Witness ==
    /\ last.op = "clearConversation"
    /\ PreHad
    /\ PreConversation[1].scope = "chapter"
    /\ last.pre.isExpanded
    /\ last.pre.sending
    /\ sending

\* C7: setScope on an active conversation changes its scope and nothing else;
\* with no conversation it changes nothing: no conversation appears and the
\* panel's visibility stays.
C7_SetScopeNeedsConversation ==
    last.op = "setScope" =>
        /\ isExpanded = last.pre.isExpanded
        /\ IF PreHad
           THEN /\ HasConversation
                /\ Conv.scope = last.args
                /\ [Conv EXCEPT !.scope = PreConversation[1].scope] = PreConversation[1]
           ELSE conversation = Null

\* setScope('book') ran with the panel visible and no conversation
C7_Witness ==
    /\ last.op = "setScope"
    /\ last.args = "book"
    /\ ~PreHad
    /\ last.pre.isExpanded
    /\ conversation = Null

\* C8: in the application, a conversation in scope 'chapter' has a chapter text
\* and one in scope 'book' has a book text, and a click on a scope option whose
\* text is missing leaves the conversation as it was.
C8_ScopeHasItsContext ==
    /\ HasConversation =>
          /\ Conv.scope = "chapter" => Truthy(Conv.chapterText)
          /\ Conv.scope = "book" => Truthy(Conv.bookText)
    /\ (last.op = "scopeClick" /\ PreHad) =>
          \/ conversation = PreConversation
          \/ /\ last.args = "chapter" => Truthy(PreConversation[1].chapterText)
             /\ last.args = "book" => Truthy(PreConversation[1].bookText)

\* 'book' was clicked in scope 'chapter' on a conversation without a book text
C8_Witness ==
    /\ last.op = "scopeClick"
    /\ last.args = "book"
    /\ PreHad
    /\ PreConversation[1].scope = "chapter"
    /\ PreConversation[1].bookText = Undefined
    /\ HasConversation
    /\ Conv.scope = "chapter"

\* C9: whenever a conversation exists its turns are not empty and the first
\* turn has role assistant.
C9_FirstTurnIsAssistant ==
    HasConversation =>
        /\ Len(Conv.messages) > 0
        /\ Conv.messages[1].role = "assistant"

\* C10: the panel width, and the width kept for saving, stay within
\* [MIN_CHAT_WIDTH, MAX_CHAT_WIDTH] through drags and restored sessions, and a
\* pointer position asking for more than the maximum gives the maximum, one
\* asking for less than the minimum the minimum.
C10_WidthWithinLimits ==
    /\ MIN_CHAT_WIDTH <= chatWidth /\ chatWidth <= MAX_CHAT_WIDTH
    /\ MIN_CHAT_WIDTH <= chatWidthRef /\ chatWidthRef <= MAX_CHAT_WIDTH
    /\ (last.op = "pointerMove" /\ isDragging) =>
          LET requested == ((last.args[2] - last.args[1]) * 100) \div last.args[2]
          IN /\ requested >= MAX_CHAT_WIDTH => chatWidth = MAX_CHAT_WIDTH
             /\ requested <= MIN_CHAT_WIDTH => chatWidth = MIN_CHAT_WIDTH

\* a drag asked for 60 percent of a container 100 wide
C10_Witness ==
    /\ last.op = "pointerMove"
    /\ last.args = << 40, 100 >>
    /\ isDragging
    /\ chatWidth = MAX_CHAT_WIDTH

\* C11: on every release of the divider the width written to storage is the
\* width on display, the one the last pointer move of the gesture produced, and
\* the document view is notified of the resize.
C11_ReleasePersistsAndNotifies ==
    last.op = "pointerUp" =>
        /\ saved = Some(toString(chatWidth))
        /\ chatWidth = last.pre.chatWidth
        /\ last.args.onResizeCalled

\* the half of C11 that holds: the stored width is the displayed width
PersistedIsDisplayed ==
    last.op = "pointerUp" =>
        /\ saved = Some(toString(chatWidth))
        /\ chatWidth = last.pre.chatWidth
        /\ parseFloat(saved[1]) = chatWidth

\* C12: closing the panel, by its close button or by clearConversation, hides
\* it and leaves the width unchanged in memory and in storage; the opening
\* that follows shows the panel at the width it had.
C12_CloseKeepsWidth ==
    /\ last.op \in { "closePanel", "clearConversation" } =>
          /\ ~isExpanded
          /\ panelWidth = 0
          /\ chatWidth = last.pre.chatWidth
          /\ chatWidthRef = last.pre.chatWidthRef
          /\ saved = last.pre.saved
    /\ last.op \in { "reopenTab", "expandToChat" } =>
          /\ chatWidth = last.pre.chatWidth
          /\ saved = last.pre.saved
          /\ isExpanded => panelWidth = last.pre.chatWidth

\* the close button was used on a panel dragged to its maximum and saved
C12_Witness ==
    /\ last.op = "closePanel"
    /\ last.pre.isExpanded
    /\ ~isExpanded
    /\ chatWidth = MAX_CHAT_WIDTH
    /\ saved = Some(toString(MAX_CHAT_WIDTH))

\* C13: a drag is never active while the panel is closed, and the width
\* changes only in a pointer move of an active drag on the open panel (or when
\* a new session restores it).
C13_DragOnlyWhileOpen ==
    /\ [](isDragging => isExpanded)
    /\ [][chatWidth' # chatWidth =>
             \/ isDragging /\ isExpanded /\ last'.op = "pointerMove"
             \/ last'.op = "reload"]_vars

\* the half of C13 that holds: what changes the width
WidthChangesOnlyInDrag ==
    [][chatWidth' # chatWidth =>
          \/ isDragging /\ isExpanded /\ last'.op = "pointerMove"
          \/ last'.op = "reload"]_vars

\* the state C13 excludes: the drag flag set on a closed panel
DraggingWhileClosed == isDragging /\ ~isExpanded

\* the list a is the beginning of the list b, both as runs
RECURSIVE IsPrefixOf(_, _)
IsPrefixOf(a, b) ==
    IF a = << >> THEN TRUE
    ELSE IF b = << >> \/ Head(a).ch # Head(b).ch THEN FALSE
    ELSE IF Head(a).n = Head(b).n THEN IsPrefixOf(Tail(a), Tail(b))
    ELSE Head(a).n < Head(b).n /\ Tail(a) = << >>

\* the last handler was sendMessage and it sent a request
FollowUpSent == last.op = "sendMessage" /\ last.request # Null

\* C14: a follow-up sent in scope 'chapter' carries the chapter text cut to its
\* first 15000 characters, one sent in scope 'book' the book text cut to its
\* first 30000; a text no longer than the cap is carried whole.
C14_ScopeContextTruncated ==
    FollowUpSent =>
        LET c == PreConversation[1]
            info == last.contents[1].contextInfo
        IN /\ c.scope = "chapter" =>
                 /\ info.kind = "chapter"
                 /\ length(info.text) <= CHAPTER_CAP
                 /\ length(info.text) = Min(length(Characters(c.chapterText)), CHAPTER_CAP)
                 /\ IsPrefixOf(info.text, Characters(c.chapterText))
           /\ c.scope = "book" =>
                 /\ info.kind = "book"
                 /\ length(info.text) <= BOOK_CAP
                 /\ length(info.text) = Min(length(Characters(c.bookText)), BOOK_CAP)
                 /\ IsPrefixOf(info.text, Characters(c.bookText))

\* a follow-up in scope 'book' carried 30000 characters of a longer book
C14_Witness ==
    /\ FollowUpSent
    /\ PreConversation[1].scope = "book"
    /\ length(Characters(PreConversation[1].bookText)) > BOOK_CAP
    /\ length(last.contents[1].contextInfo.text) = BOOK_CAP

\* a follow-up in scope 'chapter' carried 15000 characters of a longer chapter
ChapterCut ==
    /\ FollowUpSent
    /\ PreConversation[1].scope = "chapter"
    /\ length(Characters(PreConversation[1].chapterText)) > CHAPTER_CAP
    /\ length(last.contents[1].contextInfo.text) = CHAPTER_CAP

\* C15: a follow-up sent in scope 'highlight' carries no scope context, also
\* when the conversation has a chapter text and a book text: the model gets
\* the original text, the turns so far and the question.
C15_HighlightSendsNoContext ==
    (FollowUpSent /\ PreConversation[1].scope = "highlight") =>
        /\ last.request[1].scopeContext = Undefined
        /\ last.contents[1].contextInfo.kind = "none"
        /\ last.contents[1].contextInfo.text = << >>
        /\ last.contents[1].originalText = PreConversation[1].originalText
        /\ Len(last.contents[1].history) = Len(PreTurns)
        /\ last.contents[1].question = last.args

\* a follow-up in scope 'highlight' on a conversation with both texts
C15_Witness ==
    /\ FollowUpSent
    /\ PreConversation[1].scope = "highlight"
    /\ Truthy(PreConversation[1].chapterText)
    /\ Truthy(PreConversation[1].bookText)
    /\ Len(PreTurns) >= 1

\* C16: an explain request on a one-word selection asks the dictionary first,
\* and when the dictionary returns a definition that definition is the result
\* the popup gives, with no call to the generative backend.
C16_DictionaryAnswerIsTheResult ==
    /\ (last.op = "simplifyText" /\ last.args = "explain" /\ Len(selectedText) = 1) =>
          pc = "dict"
    /\ (last.op = "dictionaryReply" /\ last.args.ok /\ Len(last.args.meanings) > 0) =>
          /\ pc = "idle"
          /\ ~loading
          /\ simplified = last.args.meanings[1]
          /\ simplified \in shownContents

\* the half of C16 that holds: dictionary first, and no backend call once it
\* has answered with a definition
DictionaryShortCircuits ==
    /\ (last.op = "simplifyText" /\ last.args = "explain" /\ Len(selectedText) = 1) =>
          pc = "dict"
    /\ (last.op = "dictionaryReply" /\ last.args.ok /\ Len(last.args.meanings) > 0) =>
          /\ pc = "idle"
          /\ ~loading
          /\ simplified = last.args.meanings[1]
    /\ pc = "ai" => simplified = ""

\* C17: when the dictionary lookup of an explain request fails or finds no
\* meaning groups, the request goes on to the generative backend; it does not
\* end there with a result.
C17_LookupMissFallsThrough ==
    (last.op = "dictionaryReply"
       /\ (~last.args.ok \/ Len(last.args.meanings) = 0)) =>
        /\ pc = "ai"
        /\ loading
        /\ simplified = ""

\* the half of C17 that holds: a failed lookup goes on to the backend
LookupFailureFallsThrough ==
    (last.op = "dictionaryReply" /\ ~last.args.ok) =>
        /\ pc = "ai"
        /\ loading
        /\ simplified = ""

\* C18: when the backend call of a follow-up throws or answers with a
\* non-success status, the question stays where sendMessage appended it and one
\* assistant turn with the fixed fallback text is appended after it; the panel
\* is then ready for another follow-up.
C18_FailedFollowUpAppendsFallback ==
    /\ (FollowUpSent /\ PreHad) =>
          /\ HasConversation
          /\ Conv.messages = Append(PreTurns, Conv.messages[Len(Conv.messages)])
          /\ Conv.messages[Len(Conv.messages)].role = "user"
          /\ Conv.messages[Len(Conv.messages)].content = last.args
          /\ sending
    /\ (last.op = "chatReply" /\ last.args.kind \in { "throw", "notok" } /\ PreHad) =>
          /\ HasConversation
          /\ Conv.messages = Append(PreTurns, Conv.messages[Len(Conv.messages)])
          /\ Conv.messages[Len(Conv.messages)].role = "assistant"
          /\ Conv.messages[Len(Conv.messages)].content = FailedToRespond
          /\ ~sending

\* a non-success status answered the question "why?": the list ends with the
\* question and the fallback
C18_Witness ==
    /\ last.op = "chatReply"
    /\ last.args.kind = "notok"
    /\ PreHad
    /\ HasConversation
    /\ Len(Conv.messages) = 3
    /\ Conv.messages[2].role = "user"
    /\ Conv.messages[2].content = "why?"
    /\ Conv.messages[3].content = FailedToRespond
    /\ ~sending

\* C19: when the backend call of an explain or eli5 request throws or answers
\* with a non-success status, the popup stops loading and shows the fixed
\* fallback text.
C19_FailedRequestShowsFallback ==
    (last.op = "backendReply" /\ last.args.kind \in { "throw", "notok" }) =>
        /\ ~loading
        /\ simplified = FailedToSimplify
        /\ FailedToSimplify \in shownContents

\* the part of C19 that holds: the fallback text is stored as the result
FailureStoresFallback ==
    (last.op = "backendReply" /\ last.args.kind \in { "throw", "notok" }) =>
        simplified = FailedToSimplify

\* the state C19 excludes: the request has resolved and the popup is loading
LoadingAfterResolved == showSimplifier /\ pc = "idle" /\ loading

\* the last handler resumed with a successful answer that lacks the field, or
\* with the route's answer to a model answer without candidate text
AnswerLacksText ==
    /\ last.op \in { "backendReply", "chatReply" }
    /\ \/ last.args = [kind |-> "ok", simplified |-> Undefined]
       \/ last.args = POST(NoCandidate)

\* C20: a successful answer without the expected text gives a placeholder as
\* ordinary content, with no error: "Unable to simplify text" for an explain
\* or eli5 request, "Unable to respond" for a follow-up.
C20_PlaceholderByRequestKind ==
    /\ (AnswerLacksText /\ last.op = "backendReply") =>
          /\ simplified = UnableToSimplify
          /\ ~loading
          /\ Len(messages) = 1
          /\ messages[1].role = "assistant"
          /\ messages[1].content = UnableToSimplify
    /\ (AnswerLacksText /\ last.op = "chatReply" /\ PreHad) =>
          /\ HasConversation
          /\ Conv.messages[Len(Conv.messages)].role = "assistant"
          /\ Conv.messages[Len(Conv.messages)].content = UnableToRespond
          /\ ~sending

\* C20 as amended: the placeholder is "Unable to simplify text" whenever the
\* model's answer has no candidate text, for follow-ups too, and when the
\* answer to an explain or eli5 request has no `simplified`; it is "Unable to
\* respond" when the answer to a follow-up has no `simplified`. It is ordinary
\* content and no error is thrown.
C20_PlaceholderByOrigin ==
    /\ (AnswerLacksText /\ last.op = "backendReply") =>
          /\ simplified = UnableToSimplify
          /\ ~loading
          /\ Len(messages) = 1
          /\ messages[1].role = "assistant"
          /\ messages[1].content = UnableToSimplify
    /\ (AnswerLacksText /\ last.op = "chatReply" /\ PreHad) =>
          /\ HasConversation
          /\ Conv.messages = Append(PreTurns, Conv.messages[Len(Conv.messages)])
          /\ Conv.messages[Len(Conv.messages)].role = "assistant"
          /\ last.args = POST(NoCandidate) =>
                Conv.messages[Len(Conv.messages)].content = UnableToSimplify
          /\ last.args.simplified = Undefined =>
                Conv.messages[Len(Conv.messages)].content = UnableToRespond
          /\ ~sending

\* a follow-up was answered by the route for a model answer without text
C20_Witness ==
    /\ last.op = "chatReply"
    /\ last.args = POST(NoCandidate)
    /\ PreHad
    /\ HasConversation
    /\ Conv.messages[Len(Conv.messages)].content = UnableToSimplify
    /\ ~sending


\* C21: every request to the route ends with a response: a success status with
\* a `simplified` string, or a non-success status with an `error` field; a
\* missing text gives 400, missing configuration and failed authentication give
\* 500, a failure of the model gives the model's status, a thrown error 500.
C21_EveryResponseWellFormed ==
    last.op = "POST" =>
        LET req == last.args.req
            env == last.args.env
            r == last.response
            reachesModel == /\ req.parses /\ Truthy(req.text) /\ env.configured
                            /\ env.auth = "token"
                            /\ (req.mode = "followup" => req.historyIsList)
        IN /\ ~r.unhandled
           /\ \/ IsOk(r.status) /\ Truthy(r.simplified) /\ r.error = Undefined
              \/ ~IsOk(r.status) /\ r.error # Undefined /\ r.simplified = Undefined
           /\ (req.parses /\ ~Truthy(req.text)) => r.status = 400
           /\ (req.parses /\ Truthy(req.text) /\ ~env.configured) => r.status = 500
           /\ (req.parses /\ Truthy(req.text) /\ env.configured /\ env.auth # "token") =>
                 r.status = 500
           /\ (reachesModel /\ env.upstream.kind = "answer") =>
                 r.status = env.upstream.status
           /\ (reachesModel /\ env.upstream.kind \in { "throws", "nojson" }) =>
                 r.status = 500
           /\ ~req.parses => r.status = 500

\* the model could not be reached (the fetch threw) for a well-formed follow-up
C21_Witness ==
    /\ last.op = "POST"
    /\ last.args.req.parses
    /\ last.args.req.mode = "followup"
    /\ last.args.env.auth = "token"
    /\ last.args.env.configured
    /\ last.args.env.upstream.kind = "throws"
    /\ last.response.status = 500
    /\ last.response.error = "Failed to simplify text"


\* the role a turn is replayed with
Replayed(role) == IF role = "assistant" THEN "model" ELSE "user"

\* the turns follow the preamble, the history h in order with its roles, then
\* the question q as one more user turn
ReplaysThenAsks(sent, h, q) ==
    IF Len(h) = 0 /\ Len(sent.turns) = 1
    THEN sent.history = << >> /\ sent.question = q
    ELSE /\ Len(sent.turns) = Len(h) + 3
         /\ \A i \in 1..Len(h) :
               /\ sent.turns[i + 2].role = Replayed(h[i].role)
               /\ sent.turns[i + 2].text = h[i].content
         /\ sent.turns[Len(sent.turns)] = [role |-> "user", text |-> q]

\* C22: a follow-up, from the chat panel or from the popup, sends the turns the
\* conversation had before the question, in order, assistant turns as model
\* turns and user turns as user turns, and after them the question, once, as
\* the last user turn.
C22_HistoryReplayedThenQuestion ==
    /\ (FollowUpSent /\ PreHad) =>
          /\ Len(last.request[1].conversationHistory) = Len(PreTurns)
          /\ Len(PreTurns) > 0
          /\ Len(last.contents[1].turns) = Len(PreTurns) + 3
          /\ ReplaysThenAsks(last.contents[1], PreTurns, last.args)
    /\ last.op = "sendFollowUp" =>
          /\ Len(last.request[1].conversationHistory) = Len(last.pre.messages)
          /\ ReplaysThenAsks(last.contents[1], last.pre.messages, last.args)
          /\ messages = Append(last.pre.messages, messages[Len(messages)])

\* a question asked in the panel on a conversation of two turns, an assistant
\* turn and a user turn
C22_Witness ==
    /\ FollowUpSent
    /\ PreHad
    /\ Len(PreTurns) = 2
    /\ PreTurns[1].role = "assistant"
    /\ PreTurns[2].role = "user"
    /\ Len(last.contents[1].turns) = 5
    /\ last.contents[1].turns[3].role = "model"


\* C23: at most one selection timeout is armed at any time, the one the reader
\* holds in selectionTimerRef, because every selection event cancels the armed
\* one before arming its own; when a timeout fires the popup shows the
\* selection present at that moment, or nothing if there is none; and after
\* the reader has unmounted no timeout is armed and no popup is shown.
C23_OnePendingSelectionTimer ==
    /\ Cardinality(timers) <= 1
    /\ \A t \in timers : selectionTimerRef = Some(t.id)
    /\ (last.op = "selectionTimer" /\ last.pre.readerMounted) =>
          IF last.pre.selection # << >>
          THEN showSimplifier /\ selectedText = last.pre.selection
          ELSE /\ showSimplifier = last.pre.showSimplifier
               /\ selectedText = last.pre.selectedText
    /\ ~readerMounted => timers = { } /\ ~showSimplifier

\* a third selection event in a row left one timeout armed, its own
C23_Witness ==
    /\ last.op = "handleSelection"
    /\ nextTimer = 3
    /\ ~showSimplifier
    /\ timers = { [id |-> 2, waitTime |-> waitTime(selection)] }

\* the reader unmounted while a timeout was armed, and nothing is armed now
UnmountCancelled ==
    /\ ~readerMounted
    /\ selectionTimerRef # Null
    /\ timers = { }


\* C24: from any result view of the popup, expand-to-chat leaves a conversation
\* whose original text is the selected text and whose turns are the popup's
\* turns in order, and the panel visible.
C24_ExpandSeedsAndOpens ==
    last.op = "expandToChat" =>
        /\ HasConversation
        /\ Conv.originalText = last.args.originalText
        /\ Conv.messages = last.args.messages
        /\ Conv.scope = "highlight"
        /\ isExpanded

\* the part of C24 that holds: expand from a popup that has turns
ExpandSeedsWhenTurnsExist ==
    (last.op = "expandToChat" /\ Len(last.args.messages) > 0) =>
        /\ HasConversation
        /\ Conv.originalText = last.args.originalText
        /\ Conv.messages = last.args.messages
        /\ Conv.scope = "highlight"
        /\ isExpanded

\* the case C24 misses: expand pressed on a result view without turns
ExpandWithoutTurns ==
    /\ last.op = "expandToChat"
    /\ last.args.messages = << >>
    /\ simplified # ""
    /\ ~isExpanded


\* the conversation c with its turns and scope blanked: what must not change
Frame(c) == [c EXCEPT !.messages = << >>, !.scope = "highlight"]

\* C25: addMessage and setScope leave the original text, the chapter text, the
\* book text and the chapter title as they were; addMessage also leaves the
\* scope and setScope the turns. The original text of the conversation changes
\* only in a startConversation or a clearConversation.
C25_AppendAndScopeKeepTheRest ==
    /\ [](/\ (last.op \in { "addMessage", "chatReply", "sendMessage" } /\ PreHad) =>
               /\ HasConversation
               /\ Frame(Conv) = Frame(PreConversation[1])
               /\ Conv.scope = PreConversation[1].scope
          /\ (last.op = "setScope" /\ PreHad) =>
               /\ HasConversation
               /\ Frame(Conv) = Frame(PreConversation[1])
               /\ Conv.messages = PreTurns)
    /\ [][(HasConversation
             /\ (conversation' = Null \/ conversation'[1].originalText # Conv.originalText))
           => last'.op \in { "startConversation", "clearConversation" }]_vars

\* setScope changed the scope of a conversation with a chapter text and two
\* turns or more
C25_Witness ==
    /\ last.op = "setScope"
    /\ PreHad
    /\ PreConversation[1].scope # last.args
    /\ Truthy(PreConversation[1].chapterText)
    /\ Len(PreTurns) >= 2
    /\ HasConversation
    /\ Conv.scope = last.args

\* a startConversation gave the conversation another original text
AnchorReplaced ==
    /\ last.op = "startConversation"
    /\ PreHad
    /\ HasConversation
    /\ Conv.originalText # PreConversation[1].originalText


\* the turn at position i of the conversation c is a user turn answered by the
\* very next turn, or the last turn with its call still in flight
Answered(c, i) ==
    IF i < Len(c.messages)
    THEN c.messages[i + 1].role = "assistant"
    ELSE [question |-> c.messages[i].id] \in inFlight

\* C26: the chat panel never has two follow-up requests in flight: a send while
\* one is unresolved is rejected; so each user turn of the conversation is
\* directly followed by the assistant reply (or fallback) to that question, the
\* last one at most awaiting it, and a reply lands right after its question.
C26_OneRequestTurnsPaired ==
    /\ Cardinality(inFlight) <= 1
    /\ (last.op = "sendMessage" /\ last.pre.sending) =>
          /\ last.request = Null
          /\ conversation = PreConversation
    /\ HasConversation =>
          \A i \in 1..Len(Conv.messages) :
             Conv.messages[i].role = "user" => Answered(Conv, i)
    /\ (last.op = "chatReply" /\ conversation # PreConversation) =>
          /\ Len(PreTurns) > 0
          /\ PreTurns[Len(PreTurns)].id = last.answered

\* at most one call of sendMessage awaits its fetch, `sending` says whether one
\* does, and a send in the meantime changes nothing
OneRequestInFlight ==
    /\ Cardinality(inFlight) <= 1
    /\ sending <=> inFlight # { }
    /\ (last.op = "sendMessage" /\ last.pre.sending) =>
          /\ last.request = Null
          /\ conversation = PreConversation

\* a send was rejected because the reply to the one before is still awaited
SendRejectedWhileSending ==
    /\ last.op = "sendMessage"
    /\ last.args # ""
    /\ last.pre.sending
    /\ inFlight # { }

\* the panel shows two user turns in a row: the first came from the popup with
\* its reply still awaited there, the second was sent from the panel
TwoQuestionsInARow ==
    /\ HasConversation
    /\ \E i \in 1..(Len(Conv.messages) - 1) :
          /\ Conv.messages[i].role = "user"
          /\ Conv.messages[i + 1].role = "user"


\* the ids of the turns the conversation had before the handler ran
PreIds == { PreTurns[i].id : i \in 1..Len(PreTurns) }

\* C27: the reply (or fallback) to a follow-up is appended only to the
\* conversation the follow-up was sent from: when that conversation was
\* replaced while the request was in flight, the late reply adds nothing to the
\* conversation it finds.
C27_LateReplyNotAdded ==
    (last.op = "chatReply" /\ last.answered \notin PreIds) =>
        conversation = PreConversation

\* a reply arrived at the conversation that holds its question and was
\* appended right after it
ReplyToItsConversation ==
    /\ last.op = "chatReply"
    /\ last.answered \in PreIds
    /\ HasConversation
    /\ Len(Conv.messages) = Len(PreTurns) + 1
    /\ PreTurns[Len(PreTurns)].id = last.answered

\* a reply arrived after clearConversation and was dropped
ReplyAfterClear ==
    /\ last.op = "chatReply"
    /\ ~PreHad
    /\ ~HasConversation


\* C28: in every reachable state the panel being open implies that a
\* conversation exists: expand-to-chat opens it after seeding the store, the
\* reopen tab is offered only with a conversation, and clearConversation hides
\* the panel as it drops the conversation.
C28_OpenPanelHasConversation ==
    /\ isExpanded => HasConversation
    /\ last.op = "clearConversation" => ~isExpanded /\ ~HasConversation

\* the panel was reopened by the tab, on a conversation with a reply from the
\* panel
C28_Witness ==
    /\ last.op = "reopenTab"
    /\ isExpanded
    /\ HasConversation
    /\ Len(Conv.messages) >= 3

\* clearConversation ran on an open panel
ClearedWhileOpen ==
    /\ last.op = "clearConversation"
    /\ last.pre.isExpanded
    /\ PreHad
    /\ ~isExpanded


\* what the store held when the close button was pressed, at a reopening
AtClose == last.closedWith[1].conversation[1]

\* C29 as stated: closing the panel with the close button and later reopening
\* it with the minimized tab leaves the conversation (original text, turns and
\* scope) exactly as it was before closing.
C29_ReopenedAsClosed ==
    /\ last.op \in { "closePanel", "reopenTab" } => conversation = PreConversation
    /\ last.op = "reopenTab" => Conv = AtClose

\* C29, amended: the close button and the minimized tab each leave the
\* conversation alone, and the conversation found at reopening is the one that
\* was closed, with the same original text, context, scope and turns, and at
\* most one turn more at its end: the reply (or fallback) to a send that was in
\* flight at closing.
C29_ReopenedWithAtMostTheAwaitedReply ==
    /\ last.op \in { "closePanel", "reopenTab" } => conversation = PreConversation
    /\ last.op = "reopenTab" =>
          /\ HasConversation
          /\ Frame(Conv) = Frame(AtClose)
          /\ Conv.scope = AtClose.scope
          /\ \/ Conv.messages = AtClose.messages
             \/ /\ last.closedWith[1].inFlight # { }
                /\ Len(Conv.messages) = Len(AtClose.messages) + 1
                /\ SubSeq(Conv.messages, 1, Len(AtClose.messages)) = AtClose.messages
                /\ Conv.messages[Len(Conv.messages)].role = "assistant"

\* the panel was closed on a conversation of two turns or more and reopened
\* on the same conversation
C29_Witness ==
    /\ last.op = "reopenTab"
    /\ Len(AtClose.messages) >= 2
    /\ Conv = AtClose
    /\ isExpanded

\* the panel was closed while a reply was awaited, the reply arrived, and the
\* reopened panel shows it
ReplyArrivedWhileClosed ==
    /\ last.op = "reopenTab"
    /\ last.closedWith[1].inFlight # { }
    /\ Len(Conv.messages) = Len(AtClose.messages) + 1


\* the recent-books list as the library page reads it, and the one before the
\* call
Books == getRecentBooks(stored)
PreBooks == getRecentBooks(last.pre.stored)
Ids(books) == { books[i].id : i \in 1..Len(books) }

ReopenedMovesToFront ==
    /\ last.op = "addRecentBook"
    /\ last.args.id \in Ids(PreBooks)
    /\ PreBooks[1].id # last.args.id
    /\ Len(Books) = Len(PreBooks)

\* progress was reported for a book that had dropped off the list
ProgressOfDroppedBook ==
    /\ last.op = "updateBookProgress"
    /\ Len(PreBooks) = MAX_RECENT_BOOKS
    /\ last.args.id \notin Ids(PreBooks)

\* progress with a position was recorded in a record that is not the first
ProgressRecorded ==
    /\ last.op = "updateBookProgress"
    /\ \E i \in 2..Len(Books) :
          /\ Books[i].id = last.args.id
          /\ Books[i].progress = 50
          /\ Books[i].currentCfi = "epubcfi(/6/4)"
          /\ PreBooks[i].currentCfi = Undefined

====
